---- MODULE Spec2Model ----
(***************************************************************************)
(* Model of app.py: module start-up (credential check, client, chat       *)
(* interface), the LaTeX delimiter normaliser format_latex and the chat   *)
(* handler chat_with_deepseek.                                             *)
(*                                                                         *)
(* A Python str is a sequence of one-character strings.  A value that may *)
(* be None is a sequence of length 0 (None) or 1 (the value).             *)
(***************************************************************************)
EXTENDS Integers, Sequences, FiniteSets, TLC

VARIABLES
    pc,              \* position of the module's top-level code
    is_main,         \* __name__ == "__main__"
    environ_key,     \* os.environ["DEEPSEEK_API_KEY"]: <<>> unset, <<s>> set to s
    dotenv_key,      \* the entry of the .env file, same encoding
    startup_error,   \* exception that ended the module's top-level code
    call,            \* function being executed: "none", "format_latex", "chat_with_deepseek"
    phase,           \* position inside that call
    text,            \* format_latex: argument
    lines,           \* format_latex: local `lines`
    formatted_lines, \* format_latex: local `formatted_lines`
    in_math_log,     \* format_latex: value of `in_math` assigned in each iteration
    formatted,       \* format_latex: returned value
    again,           \* format_latex applied to its own output: <<>> or <<str>>
    message,         \* chat_with_deepseek: argument
    history,         \* chat_with_deepseek: argument
    messages,        \* chat_with_deepseek: local `messages`
    response,        \* outcome of client.chat.completions.create
    result,          \* chat_with_deepseek: how the call ended
    served           \* a request of the launched interface has been answered

vars == <<pc, is_main, environ_key, dotenv_key, startup_error, call, phase,
          text, lines, formatted_lines, in_math_log, formatted, again,
          message, history, messages, response, result, served>>

(***************************************************************************)
(* Bounds and input domains                                                *)
(***************************************************************************)
MaxLen == 4

MaxTurns == 2

Chars == {"$", "\\", "x", "\n"}

SeqsUpTo(S, n) == UNION {[1..k -> S] : k \in 0..n}

Texts == SeqsUpTo(Chars, MaxLen)

None == <<>>

Some(v) == <<v>>

(***************************************************************************)
(* format_latex                                                            *)
(***************************************************************************)
RECURSIVE SplitFrom(_, _, _, _)
SplitFrom(t, i, cur, acc) ==
    IF i > Len(t) THEN Append(acc, cur)
    ELSE IF t[i] = "\n" THEN SplitFrom(t, i + 1, <<>>, Append(acc, cur))
    ELSE SplitFrom(t, i + 1, Append(cur, t[i]), acc)

RECURSIVE SplitLinesFrom(_, _, _, _)
SplitLinesFrom(t, i, cur, acc) ==
    IF i > Len(t) THEN (IF cur = <<>> THEN acc ELSE Append(acc, cur))
    ELSE IF t[i] = "\n" THEN SplitLinesFrom(t, i + 1, <<>>, Append(acc, cur))
    ELSE SplitLinesFrom(t, i + 1, Append(cur, t[i]), acc)

\* a splitter that drops the empty piece after a final newline
split_dropping_last(t) == SplitLinesFrom(t, 1, <<>>, <<>>)

\* text.split('\n')
split(t) == SplitFrom(t, 1, <<>>, <<>>)

RECURSIVE JoinFrom(_, _, _)
JoinFrom(ls, k, acc) ==
    IF k > Len(ls) THEN acc
    ELSE JoinFrom(ls, k + 1, IF k = 1 THEN ls[k] ELSE acc \o <<"\n">> \o ls[k])

\* '\n'.join(formatted_lines)
join(ls) == JoinFrom(ls, 1, <<>>)

\* a pass-through test that never fires
never_double_dollar(line) == FALSE

\* '$$' in line
HasDoubleDollar(line) ==
    \E i \in 1..(Len(line) - 1) : line[i] = "$" /\ line[i + 1] = "$"

\* a delimiter test that ignores the backslash escape
is_any_dollar(line, i) == line[i] = "$"

\* char == '$' and (i == 0 or line[i-1] != '\\')   (i is 1-based here)
IsDelimiter(line, i) ==
    line[i] = "$" /\ (i = 1 \/ line[i - 1] # "\\")

\* a marker that is doubled only when a span opens
marker_open_only(in_math) == IF in_math THEN <<"$", "$">> ELSE <<"$">>

\* '$$' if in_math else '$$'
Marker(in_math) == IF in_math THEN <<"$", "$">> ELSE <<"$", "$">>

\* the inner loop: for i, char in enumerate(line)
RECURSIVE ScanLine(_, _, _, _)
ScanLine(line, i, in_math, new_line) ==
    IF i > Len(line) THEN [new_line |-> new_line, in_math |-> Some(in_math)]
    ELSE IF IsDelimiter(line, i)
         THEN ScanLine(line, i + 1, ~in_math, new_line \o Marker(~in_math))
         ELSE ScanLine(line, i + 1, in_math, Append(new_line, line[i]))

\* one iteration of the outer loop; in_math = None when the iteration
\* took the `continue` and assigned no flag
FormatLine(line) ==
    IF HasDoubleDollar(line)
    THEN [new_line |-> line, in_math |-> None]
    ELSE ScanLine(line, 1, FALSE, <<>>)

FormatLines(ls) == [k \in 1..Len(ls) |-> FormatLine(ls[k])]

NewLines(ls) == [k \in 1..Len(ls) |-> FormatLines(ls)[k].new_line]

InMathLog(ls) == [k \in 1..Len(ls) |-> FormatLines(ls)[k].in_math]

format_latex(t) == join(NewLines(split(t)))

(***************************************************************************)
(* chat_with_deepseek                                                      *)
(***************************************************************************)
Hi == <<"H", "i">>

WhatIs == <<"W", "h", "a", "t", " ", "i", "s", " ", "2", "+", "2", "?">>

Hello == <<"H", "e", "l", "l", "o", "!">>

EmptyStr == <<>>

\* a turn of the history is the pair <<human, assistant>>; the assistant
\* reply is None, '' or a text
Turns == {<<h, a>> : h \in {Hi, WhatIs}, a \in {None, Some(EmptyStr), Some(Hello)}}

Histories == SeqsUpTo(Turns, MaxTurns)

NewMessages == {EmptyStr, WhatIs}

\* Python truth value of the assistant reply: `if assistant:`
Truthy(assistant) == assistant # None /\ assistant[1] # EmptyStr

ContentOf(assistant) == IF assistant = None THEN EmptyStr ELSE assistant[1]

Msg(role, content) == [role |-> role, content |-> content]

\* a loop body that appends the assistant reply whether or not it is present
append_turn_always(msgs, turn) ==
    Append(Append(msgs, Msg("user", turn[1])), Msg("assistant", ContentOf(turn[2])))

\* a loop body that appends the assistant reply before the user text
append_turn_reply_first(msgs, turn) ==
    IF Truthy(turn[2])
    THEN Append(Append(msgs, Msg("assistant", turn[2][1])), Msg("user", turn[1]))
    ELSE Append(msgs, Msg("user", turn[1]))

\* body of `for human, assistant in history`
AppendTurn(msgs, turn) ==
    IF Truthy(turn[2])
    THEN Append(Append(msgs, Msg("user", turn[1])), Msg("assistant", turn[2][1]))
    ELSE Append(msgs, Msg("user", turn[1]))

RECURSIVE AppendTurnsFrom(_, _, _)
AppendTurnsFrom(h, k, msgs) ==
    IF k > Len(h) THEN msgs ELSE AppendTurnsFrom(h, k + 1, AppendTurn(msgs, h[k]))

BuildMessages(m, h) == Append(AppendTurnsFrom(h, 1, <<>>), Msg("user", m))

\* outcomes of client.chat.completions.create and of reading the response
Timeout == <<"t", "i", "m", "e", "o", "u", "t">>

NoSplitMsg ==
    <<"'", "N", "o", "n", "e", "T", "y", "p", "e", "'", " ", "o", "b", "j",
      "e", "c", "t", " ", "h", "a", "s", " ", "n", "o", " ", "a", "t", "t",
      "r", "i", "b", "u", "t", "e", " ", "'", "s", "p", "l", "i", "t", "'">>

NoReasoningMsg ==
    <<"n", "o", " ", "a", "t", "t", "r", "i", "b", "u", "t", "e", " ", "'",
      "r", "e", "a", "s", "o", "n", "i", "n", "g", "_", "c", "o", "n", "t",
      "e", "n", "t", "'">>

Exc(class, msg) == [class |-> class, msg |-> msg]

NoExc == Exc("none", EmptyStr)

ApiErrors ==
    {Exc(c, m) : c \in {"APIConnectionError", "APIStatusError"},
                 m \in {Timeout, EmptyStr, <<"$", "x", "$">>}}

Segments ==
    {EmptyStr, <<"x">>, <<"$", "x", "$">>, <<"$", "$", "x", "$">>,
     <<"\\", "$">>, <<"x", "\n", "$">>}

\* the attribute reasoning_content: missing from the message object, or
\* present with value None or a str
Attr(has, value) == [has |-> has, value |-> value]

ReasoningAttrs == {Attr(FALSE, None)} \cup {Attr(TRUE, v) : v \in {None} \cup {Some(s) : s \in Segments}}

ContentValues == {None} \cup {Some(s) : s \in Segments}

Outcome(kind, exc, reasoning, content) ==
    [kind |-> kind, exc |-> exc, reasoning_content |-> reasoning, content |-> content]

NoOutcome == Outcome("none", NoExc, Attr(FALSE, None), None)

Outcomes ==
    {Outcome("raise", e, Attr(FALSE, None), None) : e \in ApiErrors}
    \cup {Outcome("response", NoExc, r, c) : r \in ReasoningAttrs, c \in ContentValues}

Return(v) == [kind |-> "return", value |-> v, exc |-> NoExc]

Raise(e) == [kind |-> "raise", value |-> EmptyStr, exc |-> e]

NoResult == [kind |-> "none", value |-> EmptyStr, exc |-> NoExc]

ReasoningLabel ==
    <<"U+1F914", " ", "R", "e", "a", "s", "o", "n", "i", "n", "g", ":", "\n">>

AnswerLabel ==
    <<"\n", "\n", "U+1F4DD", " ", "A", "n", "s", "w", "e", "r", ":", "\n">>

\* a display string with the two sections exchanged
display_swapped(reasoning, answer) ==
    ReasoningLabel \o answer \o AnswerLabel \o reasoning

\* the f-string of the return statement
Display(reasoning, answer) ==
    ReasoningLabel \o reasoning \o AnswerLabel \o answer

\* the body of the try block
TryBody(o) ==
    IF o.kind = "raise" THEN Raise(o.exc)
    ELSE IF ~o.reasoning_content.has THEN Raise(Exc("AttributeError", NoReasoningMsg))
    ELSE IF o.reasoning_content.value = None THEN Raise(Exc("AttributeError", NoSplitMsg))
    ELSE IF o.content = None THEN Raise(Exc("AttributeError", NoSplitMsg))
    ELSE Return(Display(format_latex(o.reasoning_content.value[1]),
                        format_latex(o.content[1])))

\* a handler that catches the API library's errors only
catches_api_errors_only(e) == e.class \in {"APIConnectionError", "APIStatusError"}

\* except Exception
Catches(e) ==
    e.class \in {"APIConnectionError", "APIStatusError", "AttributeError"}

ErrorPrefix == <<"E", "r", "r", "o", "r", ":", " ">>

\* f"Error: {str(e)}"
ErrorString(e) == ErrorPrefix \o e.msg

\* lines 46-55: the try block and its handler
TryExcept(o) ==
    LET r == TryBody(o)
    IN  IF r.kind = "raise" /\ Catches(r.exc) THEN Return(ErrorString(r.exc)) ELSE r

(***************************************************************************)
(* Module start-up                                                         *)
(***************************************************************************)
KeyValues == {None, Some("")} \cup {Some("sk-key")}

\* a check that tests for None only
key_is_none(k) == k = None

\* not os.getenv("DEEPSEEK_API_KEY")
KeyMissing(k) == k = None \/ k[1] = ""

ValueErrorText ==
    "ValueError: DEEPSEEK_API_KEY environment variable is not set. Please check your .env file."

OpenAIErrorText == "OpenAIError: The api_key client option must be set"

FormatIdle ==
    /\ text' = EmptyStr
    /\ lines' = <<>>
    /\ formatted_lines' = <<>>
    /\ in_math_log' = <<>>
    /\ formatted' = EmptyStr
    /\ again' = None

ChatIdle ==
    /\ message' = EmptyStr
    /\ history' = <<>>
    /\ messages' = <<>>
    /\ response' = NoOutcome
    /\ result' = NoResult

Init ==
    /\ pc = "load_dotenv"
    /\ is_main \in BOOLEAN
    /\ environ_key \in KeyValues
    /\ dotenv_key \in KeyValues
    /\ startup_error = "none"
    /\ call = "none"
    /\ phase = "idle"
    /\ text = EmptyStr
    /\ lines = <<>>
    /\ formatted_lines = <<>>
    /\ in_math_log = <<>>
    /\ formatted = EmptyStr
    /\ again = None
    /\ message = EmptyStr
    /\ history = <<>>
    /\ messages = <<>>
    /\ response = NoOutcome
    /\ result = NoResult
    /\ served = FALSE

callVars == <<call, phase, text, lines, formatted_lines, in_math_log, formatted,
              again, message, history, messages, response, result, served>>

\* load_dotenv(): an entry of .env is copied into the environment unless
\* the variable is already set there
LoadDotenv ==
    /\ pc = "load_dotenv"
    /\ environ_key' = IF environ_key = None THEN dotenv_key ELSE environ_key
    /\ pc' = "client"
    /\ UNCHANGED <<is_main, dotenv_key, startup_error, callVars>>

\* client = OpenAI(api_key=os.getenv(...), base_url=...)
CreateClient ==
    /\ pc = "client"
    /\ pc' = "check"
    /\ UNCHANGED <<is_main, environ_key, dotenv_key, startup_error, callVars>>

\* the client library may refuse an api_key of None
CreateClientRaises ==
    /\ pc = "client"
    /\ environ_key = None
    /\ pc' = "failed"
    /\ startup_error' = OpenAIErrorText
    /\ UNCHANGED <<is_main, environ_key, dotenv_key, callVars>>

\* if not os.getenv("DEEPSEEK_API_KEY"): raise ValueError(...)
CheckKey ==
    /\ pc = "check"
    /\ IF KeyMissing(environ_key)
       THEN pc' = "failed" /\ startup_error' = ValueErrorText
       ELSE pc' = "iface" /\ UNCHANGED startup_error
    /\ UNCHANGED <<is_main, environ_key, dotenv_key, callVars>>

\* iface = gr.ChatInterface(chat_with_deepseek, ...)
BuildInterface ==
    /\ pc = "iface"
    /\ pc' = "main"
    /\ UNCHANGED <<is_main, environ_key, dotenv_key, startup_error, callVars>>

\* if __name__ == "__main__": iface.launch(...)
Main ==
    /\ pc = "main"
    /\ pc' = IF is_main THEN "serving" ELSE "imported"
    /\ UNCHANGED <<is_main, environ_key, dotenv_key, startup_error, callVars>>

startVars == <<pc, is_main, environ_key, dotenv_key, startup_error>>

\* a caller of the imported module applies format_latex to a text
FormatCall ==
    /\ pc = "imported"
    /\ call = "none"
    /\ \E t \in Texts :
        /\ text' = t
        /\ lines' = split(t)
        /\ formatted_lines' = NewLines(split(t))
        /\ in_math_log' = InMathLog(split(t))
        /\ formatted' = format_latex(t)
    /\ again' = None
    /\ call' = "format_latex"
    /\ phase' = "returned"
    /\ ChatIdle
    /\ UNCHANGED <<startVars, served>>

\* the caller applies format_latex to the text it got back
FormatAgain ==
    /\ call = "format_latex"
    /\ phase = "returned"
    /\ again' = Some(format_latex(formatted))
    /\ phase' = "reapplied"
    /\ UNCHANGED <<startVars, call, text, lines, formatted_lines, in_math_log,
                   formatted, message, history, messages, response, result, served>>

\* lines 39-44 and the start of the API call
ChatBuild ==
    /\ pc \in {"serving", "imported"}
    /\ call = "none"
    /\ \E m \in NewMessages, h \in Histories :
        /\ message' = m
        /\ history' = h
        /\ messages' = BuildMessages(m, h)
    /\ response' = NoOutcome
    /\ result' = NoResult
    /\ call' = "chat_with_deepseek"
    /\ phase' = "calling"
    /\ FormatIdle
    /\ UNCHANGED <<startVars, served>>

\* lines 46-55: the API call ends and the handler returns
ChatComplete ==
    /\ call = "chat_with_deepseek"
    /\ phase = "calling"
    /\ \E o \in Outcomes :
        /\ response' = o
        /\ result' = TryExcept(o)
    /\ phase' = "returned"
    /\ served' = (served \/ pc = "serving")
    /\ UNCHANGED <<startVars, call, text, lines, formatted_lines, in_math_log,
                   formatted, again, message, history, messages>>

\* the call is over: its locals are gone and the next call can start
ReturnToCaller ==
    /\ phase \in {"returned", "reapplied"}
    /\ call' = "none"
    /\ phase' = "idle"
    /\ FormatIdle
    /\ ChatIdle
    /\ UNCHANGED <<startVars, served>>

Next ==
    \/ LoadDotenv
    \/ CreateClient
    \/ CreateClientRaises
    \/ CheckKey
    \/ BuildInterface
    \/ Main
    \/ FormatCall
    \/ FormatAgain
    \/ ChatBuild
    \/ ChatComplete
    \/ ReturnToCaller

Spec == Init /\ [][Next]_vars

TypeOK ==
    /\ pc \in {"load_dotenv", "client", "check", "iface", "main", "serving", "imported", "failed"}
    /\ call \in {"none", "format_latex", "chat_with_deepseek"}
    /\ phase \in {"idle", "calling", "returned", "reapplied"}

(***************************************************************************)
(* Vocabulary of the properties, stated on the texts themselves            *)
(***************************************************************************)
Present(a) == a # None /\ a[1] # EmptyStr

ContainsDD(l) == \E i \in 1..(Len(l) - 1) : l[i] = "$" /\ l[i + 1] = "$"

\* positions of the `$` not immediately preceded by a backslash
Unescaped(l) == {i \in 1..Len(l) : l[i] = "$" /\ ~(i > 1 /\ l[i - 1] = "\\")}

\* positions of the `$` immediately preceded by a backslash
Escaped(l) == {i \in 2..Len(l) : l[i] = "$" /\ l[i - 1] = "\\"}

Odd(n) == n % 2 = 1

Before(l, i) == Cardinality({j \in Unescaped(l) : j < i})

\* out is l with every unescaped `$` doubled and every character kept
Rewritten(l, out) ==
    /\ Len(out) = Len(l) + Cardinality(Unescaped(l))
    /\ \A i \in 1..Len(l) :
        /\ out[i + Before(l, i)] = l[i]
        /\ i \in Unescaped(l) => out[i + Before(l, i) + 1] = "$"

CountNewlines(t) == Cardinality({i \in 1..Len(t) : t[i] = "\n"})

IsStr(v) == DOMAIN v = 1..Len(v) /\ \A i \in 1..Len(v) : v[i] \in STRING

InFormat == call = "format_latex"

InChat == call = "chat_with_deepseek"

Succeeded(o) ==
    /\ o.kind = "response"
    /\ o.reasoning_content.has
    /\ o.reasoning_content.value # None
    /\ o.content # None

(***************************************************************************)
(* C1: whatever the API call does (success, an error raised with message  *)
(* m, a response whose reasoning or answer is missing), the handler       *)
(* returns a string and no exception leaves it; when the call raised an   *)
(* error with message m the string is "Error: " followed by m.            *)
(***************************************************************************)
C1_AlwaysReturnsString ==
    (InChat /\ phase = "returned") =>
        /\ result.kind = "return"
        /\ IsStr(result.value)
        /\ response.kind = "raise" =>
            result.value = <<"E", "r", "r", "o", "r", ":", " ">> \o response.exc.msg

C1_Witness ==
    /\ InChat /\ phase = "returned"
    /\ response.kind = "raise"
    /\ response.exc.msg = Timeout
    /\ result.value = <<"E", "r", "r", "o", "r", ":", " ", "t", "i", "m", "e", "o", "u", "t">>

(***************************************************************************)
(* C2: the message list has 2*k + j + 1 entries, k the number of prior    *)
(* turns with a non-empty assistant reply and j the number of prior turns *)
(* whose reply is None or empty.                                           *)
(***************************************************************************)
C2_MessageCount ==
    InChat =>
        LET k == Cardinality({t \in 1..Len(history) : Present(history[t][2])})
            j == Cardinality({t \in 1..Len(history) : ~Present(history[t][2])})
        IN  Len(messages) = 2 * k + j + 1

C2_Witness ==
    /\ InChat
    /\ Len(history) = 2
    /\ history[1] = history[2]
    /\ Present(history[1][2])
    /\ Len(messages) = 5

(***************************************************************************)
(* C3: turns keep their order, the assistant message of a turn comes      *)
(* right after the user message of that turn, the list never starts with  *)
(* an assistant message nor holds two adjacent ones, and the last message *)
(* is the user message carrying the new input.                             *)
(***************************************************************************)
PosOfTurn(h, t) == t + Cardinality({s \in 1..(t - 1) : Present(h[s][2])})

C3_OrderAndAlternation ==
    InChat =>
        /\ Len(messages) = PosOfTurn(history, Len(history) + 1)
        /\ \A t \in 1..Len(history) :
            /\ messages[PosOfTurn(history, t)] = Msg("user", history[t][1])
            /\ Present(history[t][2]) =>
                messages[PosOfTurn(history, t) + 1] = Msg("assistant", history[t][2][1])
        /\ messages[1].role = "user"
        /\ \A i \in 2..Len(messages) :
            messages[i].role = "assistant" => messages[i - 1].role = "user"
        /\ messages[Len(messages)] = Msg("user", message)

C3_Witness ==
    /\ InChat
    /\ Len(history) = 2
    /\ history[1] = <<Hi, Some(Hello)>>
    /\ history[2] = <<WhatIs, None>>
    /\ message = WhatIs
    /\ Len(messages) = 4

C5_EscapedDollarKept ==
    InFormat =>
        /\ Len(formatted_lines) = Len(lines)
        /\ \A k \in 1..Len(lines) :
            /\ Cardinality(Escaped(formatted_lines[k])) = Cardinality(Escaped(lines[k]))
            /\ Unescaped(lines[k]) = {} =>
                /\ formatted_lines[k] = lines[k]
                /\ in_math_log[k] = Some(FALSE)
        /\ Unescaped(text) = {} => formatted = text

C5_Witness ==
    /\ InFormat
    /\ text = <<"x", "\\", "$", "x">>
    /\ formatted = text
    /\ in_math_log = <<Some(FALSE)>>

(***************************************************************************)
(* C6: a line that contains `$$` is returned unchanged, and formatting a  *)
(* text made of such lines twice gives what formatting it once gives.     *)
(***************************************************************************)
C6_DoubleDollarPassThrough ==
    InFormat =>
        /\ Len(formatted_lines) = Len(lines)
        /\ \A k \in 1..Len(lines) :
            ContainsDD(lines[k]) => formatted_lines[k] = lines[k]
        /\ (\A k \in 1..Len(lines) : ContainsDD(lines[k])) =>
            /\ formatted = text
            /\ phase = "reapplied" => again = Some(formatted)

C6_Witness ==
    /\ InFormat
    /\ phase = "reapplied"
    /\ text = <<"$", "$", "x", "$">>
    /\ formatted = text
    /\ again = Some(text)

(***************************************************************************)
(* C7: with the credential unset or empty once the environment is loaded, *)
(* start-up stops with an error before the chat interface is built: the   *)
(* process never builds or launches the interface, runs no handler and    *)
(* serves no request.                                                      *)
(***************************************************************************)
KeyAbsent(k) == k = None \/ k[1] = ""

C7_NoCredentialNoService ==
    (pc # "load_dotenv" /\ KeyAbsent(environ_key)) =>
        /\ pc \in {"client", "check", "failed"}
        /\ pc = "failed" => startup_error \in {ValueErrorText, OpenAIErrorText}
        /\ call = "none"
        /\ ~served

C7_Witness ==
    /\ pc = "failed"
    /\ environ_key = Some("")
    /\ startup_error = ValueErrorText
    /\ ~served

(***************************************************************************)
(* C8: on success with reasoning R and answer A the handler returns the   *)
(* reasoning label, format_latex(R), the answer label and format_latex(A) *)
(* in that order, each segment formatted on its own.                       *)
(***************************************************************************)
C8_SuccessDisplay ==
    (InChat /\ phase = "returned" /\ Succeeded(response)) =>
        /\ result.kind = "return"
        /\ result.value =
              <<"U+1F914", " ", "R", "e", "a", "s", "o", "n", "i", "n", "g", ":", "\n">>
              \o format_latex(response.reasoning_content.value[1])
              \o <<"\n", "\n", "U+1F4DD", " ", "A", "n", "s", "w", "e", "r", ":", "\n">>
              \o format_latex(response.content[1])

C8_Witness ==
    /\ InChat /\ phase = "returned"
    /\ response.kind = "response"
    /\ response.reasoning_content = Attr(TRUE, Some(<<"$", "x", "$">>))
    /\ response.content = Some(<<"\\", "$">>)
    /\ result.value =
          ReasoningLabel \o <<"$", "$", "x", "$", "$">> \o AnswerLabel \o <<"\\", "$">>

(***************************************************************************)
(* C9: a line without `$$` comes out with every unescaped `$` doubled and *)
(* every other character kept in place, so its length grows by the number *)
(* of unescaped `$`; the flag starts false on each line, so it ends true  *)
(* exactly when that number is odd, and such a line is rewritten like any *)
(* other.                                                                  *)
(***************************************************************************)
C9_InlineRewrite ==
    InFormat =>
        /\ Len(formatted_lines) = Len(lines)
        /\ Len(in_math_log) = Len(lines)
        /\ \A k \in 1..Len(lines) :
            ~ContainsDD(lines[k]) =>
                /\ Rewritten(lines[k], formatted_lines[k])
                /\ in_math_log[k] = Some(Odd(Cardinality(Unescaped(lines[k]))))
        /\ (CountNewlines(text) = 0 /\ ~ContainsDD(text)) => Rewritten(text, formatted)

C9_Witness ==
    /\ InFormat
    /\ text = <<"$", "\n", "$", "x">>
    /\ formatted = <<"$", "$", "\n", "$", "$", "x">>
    /\ in_math_log = <<Some(TRUE), Some(TRUE)>>

(***************************************************************************)
(* C10: format_latex is idempotent on every text, and its output has as   *)
(* many lines as its input.                                                *)
(***************************************************************************)
C10_Idempotent ==
    InFormat =>
        /\ CountNewlines(formatted) = CountNewlines(text)
        /\ phase = "reapplied" => again = Some(formatted)

C10_Witness ==
    /\ InFormat
    /\ phase = "reapplied"
    /\ text = <<"$", "x", "\n", "$">>
    /\ formatted = <<"$", "$", "x", "\n", "$", "$">>
    /\ again = Some(formatted)

====
